---- MODULE Spec2Model ----
(***************************************************************************)
(* Model of the Hippo node-graph editor: the Graph arena (nodes, slots,    *)
(* connection table) and the GraphEditor session, driven frame by frame    *)
(* through NodeWidget::show and NodeWidget::draw_port.                     *)
(***************************************************************************)
EXTENDS Integers, Sequences, FiniteSets, TLC

\* ------------------------------------------------------------------ bounds
\* Graph specification (SpecGraph): NodeIds / SlotIds the arenas hand out in one run.
GraphMaxNodes == 2

GraphMaxSlots == 3

\* Editor specification (Spec): NodeIds / SlotIds the arenas hand out in one run.
MaxNodes == 2

MaxSlots == 2

\* Node specification (SpecNodes): NodeIds handed out in one run.
NodesMaxNodes == 3

\* Widget specification (SpecShow): NodeIds / SlotIds handed out in one run.
ShowMaxNodes == 2

ShowMaxSlots == 2

\* The distance the nodes are dragged in one run, all nodes together.
MaxDistance == 1

\* Move specification (SpecMove): NodeIds handed out in one run, and how far
\* from its first position a node is dragged.
MoveMaxNodes == 2

MoveMaxDistance == 2

\* Drag specification (SpecDrag): NodeIds / SlotIds handed out in one run.
DragMaxNodes == 2

DragMaxSlots == 3

\* Session specification (SpecSession): NodeIds handed out in one run.
SessionMaxNodes == 3

\* Declared data types of slots (two, so that a mismatch exists).
DataTypes == {"Int32", "Float32"}

VARIABLES
    nodes,                  \* Graph.nodes: NodeId -> Node
    inputs,                 \* input slots: SlotId -> Input
    outputs,                \* output slots: SlotId -> Output
    connections,            \* Graph.connections: set of <<input, output>> entries
    next_node,              \* last NodeId handed out by the node arena
    next_slot,              \* last SlotId handed out by the slot arena
    node_order,             \* GraphEditor.node_order
    connection_in_progress, \* GraphEditor.connection_in_progress: <<>> or <<node, slot>>
    selected_nodes,         \* GraphEditor.selected_nodes
    ongoing_box_selection,  \* GraphEditor.ongoing_box_selection: <<>> or <<anchor>>
    node_positions,         \* GraphEditor.node_positions: NodeId -> position
    responses,              \* the response list of the last frame
    last_result,            \* outcome of the last Graph operation / frame
    panicked                \* TRUE once an unwrap()/index has aborted the program

vars == <<nodes, inputs, outputs, connections, next_node, next_slot,
          node_order, connection_in_progress, selected_nodes, ongoing_box_selection,
          node_positions, responses, last_result, panicked>>

\* The session fields the Graph operations leave alone.
selection == <<selected_nodes, ongoing_box_selection>>

\* ------------------------------------------------------------- helpers
\* Option<(NodeId, SlotId)>::None
None == <<>>

Some(n, s) == <<n, s>>

Range(f) == {f[i] : i \in DOMAIN f}

RECURSIVE SeqFilterOut(_, _)
SeqFilterOut(seq, x) ==
    IF seq = <<>> THEN <<>>
    ELSE IF Head(seq) = x THEN SeqFilterOut(Tail(seq), x)
         ELSE <<Head(seq)>> \o SeqFilterOut(Tail(seq), x)

\* Function f with key k removed / added.
MapWithout(f, k) == [x \in DOMAIN f \ {k} |-> f[x]]

MapWith(f, k, v) == [x \in DOMAIN f \cup {k} |-> IF x = k THEN v ELSE f[x]]

\* ------------------------------------------------ SecondaryMap<InputId, OutputId>
\* The connection table is a map keyed by the input slot; it is kept as the
\* set of its <<input, output>> entries.
SecondaryInsertKeepsOld(map, key, value) == map \cup {<<key, value>>}

SecondaryInsertDropsOthers(map, key, value) == {<<key, value>>}

SecondaryInsert(map, key, value) ==
    {e \in map : e[1] # key} \cup {<<key, value>>}

SecondaryRemove(map, key) == {e \in map : e[1] # key}

\* Option<OutputId>: <<>> or <<output>>
SecondaryGet(map, key) ==
    IF \E e \in map : e[1] = key
    THEN <<(CHOOSE e \in map : e[1] = key)[2]>>
    ELSE <<>>

\* ------------------------------------------------------------------ Graph
\* Node<T>, without label and payload.
Node(id) == [id |-> id, inputs |-> <<>>, outputs |-> <<>>]

\* Input<DataType, ValueType>, without the inline constant; kind is the
\* InputParamKind the widget matches on.
Input(id, typ, node, kind) == [id |-> id, typ |-> typ, node |-> node, kind |-> kind]

\* Output<DataType>
Output(id, node, typ) == [id |-> id, node |-> node, typ |-> typ]

\* Graph::add_node: insert_with_key hands out a fresh key and stores it in the node.
add_node_default_id(g_nodes, key) == MapWith(g_nodes, key, Node(0))

add_node(g_nodes, key) == MapWith(g_nodes, key, Node(key))

\* Does a SlotId resolve in the graph?
resolves(s) == s \in DOMAIN inputs \/ s \in DOMAIN outputs

\* graph.connection(input)
connection(input) == SecondaryGet(connections, input)

\* graph.any_param_type(slot): <<>> for Err, <<typ>> for Ok
any_param_type(s) ==
    IF s \in DOMAIN inputs THEN <<inputs[s].typ>>
    ELSE IF s \in DOMAIN outputs THEN <<outputs[s].typ>>
    ELSE <<>>

\* Owner of a slot that resolves.
slot_node(s) == IF s \in DOMAIN inputs THEN inputs[s].node ELSE outputs[s].node

\* Result of connect(output, input): the first failing check, or "Ok".
connect_result(output, input) ==
    IF ~resolves(output) \/ ~resolves(input) THEN "InvalidEndpoint"
    ELSE IF any_param_type(output) # any_param_type(input) THEN "TypeMismatch"
    ELSE IF slot_node(output) = slot_node(input) THEN "SelfLoop"
    ELSE IF ~(output \in DOMAIN outputs /\ input \in DOMAIN inputs) THEN "DirectionError"
    ELSE "Ok"

\* connect(output, input) on a connection table: the table afterwards.
connect(table, output, input, result) ==
    IF result = "Ok" THEN SecondaryInsert(table, input, output) ELSE table

\* disconnect(input) on a connection table.
disconnect(table, input) == SecondaryRemove(table, input)

\* Slots owned by node n.
slots_of(n) ==
    {s \in DOMAIN inputs : inputs[s].node = n} \cup {s \in DOMAIN outputs : outputs[s].node = n}

remove_node_connections_by_input(table, n) == {e \in table : e[1] \notin slots_of(n)}

\* remove_node: the connection table after the cascade.
remove_node_connections(table, n) ==
    {e \in table : e[1] \notin slots_of(n) /\ e[2] \notin slots_of(n)}

\* ------------------------------------------------------------ Init
Init ==
    /\ nodes = <<>>
    /\ inputs = <<>>
    /\ outputs = <<>>
    /\ connections = {}
    /\ next_node = 0
    /\ next_slot = 0
    /\ node_order = <<>>
    /\ connection_in_progress = None
    /\ selected_nodes = <<>>
    /\ ongoing_box_selection = None
    /\ node_positions = <<>>
    /\ responses = <<>>
    /\ last_result = [op |-> "new"]
    /\ panicked = FALSE

\* ------------------------------------------------------ Graph operations
\* The embedder creates a node: Graph::add_node, then the editor appends the
\* new id to node_order and gives it a position.
CreateNode ==
    /\ ~panicked
    /\ LET key == next_node + 1 IN
        /\ nodes' = add_node(nodes, key)
        /\ next_node' = key
        /\ node_order' = Append(node_order, key)
        /\ node_positions' = MapWith(node_positions, key, 0)
        /\ last_result' = [op |-> "add_node", result |-> key]
    /\ responses' = <<>>
    /\ UNCHANGED <<inputs, outputs, connections, next_slot, connection_in_progress,
                   selection, panicked>>

AddInputSlot(n, typ, kind) ==
    /\ ~panicked
    /\ n \in DOMAIN nodes
    /\ LET key == next_slot + 1 IN
        /\ inputs' = MapWith(inputs, key, Input(key, typ, n, kind))
        /\ nodes' = [nodes EXCEPT ![n].inputs = Append(@, key)]
        /\ next_slot' = key
        /\ last_result' = [op |-> "add_input_slot", result |-> key]
    /\ responses' = <<>>
    /\ UNCHANGED <<outputs, connections, next_node, node_order, connection_in_progress,
                   selection, node_positions, panicked>>

AddOutputSlot(n, typ) ==
    /\ ~panicked
    /\ n \in DOMAIN nodes
    /\ LET key == next_slot + 1 IN
        /\ outputs' = MapWith(outputs, key, Output(key, n, typ))
        /\ nodes' = [nodes EXCEPT ![n].outputs = Append(@, key)]
        /\ next_slot' = key
        /\ last_result' = [op |-> "add_output_slot", result |-> key]
    /\ responses' = <<>>
    /\ UNCHANGED <<inputs, connections, next_node, node_order, connection_in_progress,
                   selection, node_positions, panicked>>

\* remove_node(n): the node, its slots and every connection touching them go;
\* the editor drops n from node_order, selected_nodes and node_positions. A
\* key that does not resolve is a no-op.
RemoveNode(n) ==
    /\ ~panicked
    /\ IF n \in DOMAIN nodes
       THEN /\ nodes' = MapWithout(nodes, n)
            /\ inputs' = [s \in {x \in DOMAIN inputs : inputs[x].node # n} |-> inputs[s]]
            /\ outputs' = [s \in {x \in DOMAIN outputs : outputs[x].node # n} |-> outputs[s]]
            /\ connections' = remove_node_connections(connections, n)
            /\ node_order' = SeqFilterOut(node_order, n)
            /\ selected_nodes' = SeqFilterOut(selected_nodes, n)
            /\ node_positions' = MapWithout(node_positions, n)
            /\ last_result' = [op |-> "remove_node", result |-> "Removed",
                                cascade |-> connections \ remove_node_connections(connections, n)]
       ELSE /\ UNCHANGED <<nodes, inputs, outputs, connections, node_order,
                            selected_nodes, node_positions>>
            /\ last_result' = [op |-> "remove_node", result |-> "NoSuchNode", cascade |-> {}]
    /\ responses' = <<>>
    /\ UNCHANGED <<next_node, next_slot, connection_in_progress, ongoing_box_selection,
                   panicked>>

Connect(output, input) ==
    /\ ~panicked
    /\ LET result == connect_result(output, input) IN
        /\ connections' = connect(connections, output, input, result)
        /\ last_result' = [op |-> "connect", result |-> result,
                            previous |-> IF result = "Ok" THEN connection(input) ELSE <<>>]
    /\ responses' = <<>>
    /\ UNCHANGED <<nodes, inputs, outputs, next_node, next_slot, node_order,
                   connection_in_progress, selection, node_positions, panicked>>

Disconnect(input) ==
    /\ ~panicked
    /\ connections' = disconnect(connections, input)
    /\ last_result' = [op |-> "disconnect"]
    /\ responses' = <<>>
    /\ UNCHANGED <<nodes, inputs, outputs, next_node, next_slot, node_order,
                   connection_in_progress, selection, node_positions, panicked>>

\* Keys the embedder can hold: every key an arena has handed out so far.
NodeKeys == 1..next_node

SlotKeys == 1..next_slot

\* Types matter only through equality: the first slot of a run is an Int32.
FirstTypes == IF next_slot = 0 THEN {"Int32"} ELSE DataTypes

\* The embedder drives the Graph alone, slots added to any live node.
GraphNext ==
    \/ next_node < GraphMaxNodes /\ CreateNode
    \/ /\ next_slot < GraphMaxSlots
       /\ \E n \in NodeKeys, typ \in FirstTypes : AddInputSlot(n, typ, "ConnectionOrConstant")
    \/ /\ next_slot < GraphMaxSlots
       /\ \E n \in NodeKeys, typ \in FirstTypes : AddOutputSlot(n, typ)
    \/ \E n \in NodeKeys : RemoveNode(n)
    \/ \E o \in SlotKeys, i \in SlotKeys : Connect(o, i)
    \/ \E i \in SlotKeys : Disconnect(i)

SpecGraph == Init /\ [][GraphNext]_vars

\* ------------------------------------------------------------ NodeResponse
ConnectEventStarted(node, slot) == [tag |-> "ConnectEventStarted", node |-> node, slot |-> slot]

ConnectEventEnded(output, input) == [tag |-> "ConnectEventEnded", output |-> output, input |-> input]

DisconnectEvent(output, input) == [tag |-> "DisconnectEvent", output |-> output, input |-> input]

SelectNode(node) == [tag |-> "SelectNode", node |-> node]

DeleteNodeUi(node) == [tag |-> "DeleteNodeUi", node |-> node]

DeleteNodeFull(node_id) == [tag |-> "DeleteNodeFull", node_id |-> node_id]

RaiseNode(node) == [tag |-> "RaiseNode", node |-> node]

MoveNode(node, drag_delta) == [tag |-> "MoveNode", node |-> node, drag_delta |-> drag_delta]

\* NodeResponse::User(..), as the payload's widgets of a node return it.
User(node) == [tag |-> "User", node |-> node]

\* ---------------------------------------------------------- NodeWidget
\* What the renderer reports for one frame: the port whose widget saw the
\* press of a drag (0: none), the ports whose centre is less than
\* DISTANCE_TO_CONNECT from the pointer, and pointer.any_released(); no node
\* body, close button, payload widget or background is touched.
FrameInput(drag_started, close, released) ==
    [drag_started |-> drag_started, close |-> close, released |-> released,
     touch |-> [kind |-> "none"]]

\* A frame in which the pointer also touches node `node`: the payload's
\* widgets of the nodes in `user` return a response, the node's payload
\* reports can_delete, its close button is clicked, its window reports
\* drag_delta and a primary click.
NodeInput(ports, node, user, can_delete, close_clicked, drag_delta, clicked) ==
    [ports EXCEPT !.touch =
        [kind |-> "node", node |-> node, user |-> user, can_delete |-> can_delete,
         close_clicked |-> close_clicked, drag_delta |-> drag_delta, clicked |-> clicked]]

\* A frame in which the pointer is over the background at `pointer`: pressed
\* or not, released or not, with the nodes whose bounding rect intersects the
\* rectangle from the box selection's anchor to the pointer.
BackgroundInput(pressed, released, pointer, box_hits) ==
    [FrameInput(0, {}, released) EXCEPT !.touch =
        [kind |-> "background", pressed |-> pressed, pointer |-> pointer,
         box_hits |-> box_hits]]

\* The pointer touches node node_id in this frame.
on_node(ev, node_id) == ev.touch.kind = "node" /\ ev.touch.node = node_id

\* NodeWidget::draw_port for port param_id of node node_id: does one of its
\* unwrap() calls abort?
draw_port_panics(node_id, param_id, ongoing_drag) ==
    \/ any_param_type(param_id) = <<>>
    \/ /\ ongoing_drag # None
       /\ ongoing_drag[1] # node_id
       /\ any_param_type(ongoing_drag[2]) = <<>>

\* draw_port, the sense of the port widget: does it report drags?
\* Sense::hover() while a drag is ongoing, Sense::click_and_drag() otherwise.
sense_drag_always(ongoing_drag) == TRUE

sense_drag_inverted(ongoing_drag) == ongoing_drag # None

sense_drag(ongoing_drag) == ongoing_drag = None

\* draw_port, if resp.drag_started(): the response pushed.
drag_started_always_connects(node_id, param_id, is_connected_input) ==
    <<ConnectEventStarted(node_id, param_id)>>

drag_started_response(node_id, param_id, is_connected_input) ==
    IF is_connected_input
    THEN <<DisconnectEvent(connection(param_id)[1], param_id)>>
    ELSE <<ConnectEventStarted(node_id, param_id)>>

\* draw_port, if let Some((origin_node, origin_param)) = ongoing_drag: does
\* this port end the drag?
drag_ends_on_same_node(node_id, port_type, ongoing_drag, close_enough, any_released) ==
    /\ ongoing_drag # None
    /\ any_param_type(ongoing_drag[2]) = port_type
    /\ close_enough
    /\ any_released

drag_ends_on_any_type(node_id, port_type, ongoing_drag, close_enough, any_released) ==
    /\ ongoing_drag # None
    /\ ongoing_drag[1] # node_id
    /\ close_enough
    /\ any_released

drag_ends_at_any_distance(node_id, port_type, ongoing_drag, close_enough, any_released) ==
    /\ ongoing_drag # None
    /\ ongoing_drag[1] # node_id
    /\ any_param_type(ongoing_drag[2]) = port_type
    /\ any_released

drag_ends_without_release(node_id, port_type, ongoing_drag, close_enough, any_released) ==
    /\ ongoing_drag # None
    /\ ongoing_drag[1] # node_id
    /\ any_param_type(ongoing_drag[2]) = port_type
    /\ close_enough

drag_ends(node_id, port_type, ongoing_drag, close_enough, any_released) ==
    /\ ongoing_drag # None
    /\ ongoing_drag[1] # node_id
    /\ any_param_type(ongoing_drag[2]) = port_type
    /\ close_enough
    /\ any_released

\* draw_port, match (param_id, origin_param): the first alternative,
\* (input, output), binds any pair of keys, so input is param_id and output
\* is origin_param.
ended_response_origin_as_input(param_id, origin_param) ==
    <<ConnectEventEnded(param_id, origin_param)>>

ended_response(param_id, origin_param) ==
    <<ConnectEventEnded(origin_param, param_id)>>

\* NodeWidget::draw_port for port param_id of node node_id: the responses it pushes.
draw_port(node_id, param_id, ongoing_drag, is_connected_input, ev) ==
    LET port_type == any_param_type(param_id)
        close_enough == param_id \in ev.close
        started ==
            IF sense_drag(ongoing_drag) /\ ev.drag_started = param_id
            THEN drag_started_response(node_id, param_id, is_connected_input)
            ELSE <<>>
        ended ==
            IF drag_ends(node_id, port_type, ongoing_drag, close_enough, ev.released)
            THEN ended_response(param_id, ongoing_drag[2])
            ELSE <<>>
    IN  started \o ended

\* show(), input ports: should_draw, by the kind of the input.
should_draw(param) ==
    CASE inputs[param].kind = "ConnectionOnly" -> TRUE
      [] inputs[param].kind = "ConstantOnly" -> FALSE
      [] inputs[param].kind = "ConnectionOrConstant" -> TRUE

\* The ports show() draws for a node: its inputs that should be drawn, then
\* its outputs.
drawn_inputs(node_id) == SelectSeq(nodes[node_id].inputs, should_draw)

RECURSIVE draw_ports(_, _, _, _, _)
draw_ports(node_id, params, ongoing_drag, is_input, ev) ==
    IF params = <<>> THEN <<>>
    ELSE draw_port(node_id, Head(params), ongoing_drag,
                   is_input /\ connection(Head(params)) # <<>>, ev)
         \o draw_ports(node_id, Tail(params), ongoing_drag, is_input, ev)

\* show(), first pass: the responses of the payload's widgets (top_bar_ui,
\* value_widget, output_ui, bottom_ui).
user_ui(node_id, ev) ==
    IF ev.touch.kind = "node" /\ node_id \in ev.touch.user THEN <<User(node_id)>> ELSE <<>>

\* show(), titlebar buttons.
close_button_ignores_can_delete(node_id, ev) ==
    IF on_node(ev, node_id) /\ ev.touch.close_clicked
    THEN <<DeleteNodeUi(node_id)>>
    ELSE <<>>

close_button(node_id, ev) ==
    LET can_delete == on_node(ev, node_id) /\ ev.touch.can_delete IN
    IF can_delete /\ on_node(ev, node_id) /\ ev.touch.close_clicked
    THEN <<DeleteNodeUi(node_id)>>
    ELSE <<>>

\* show(), movement.
movement_any_delta(node_id, ev) ==
    LET drag_delta == IF on_node(ev, node_id) THEN ev.touch.drag_delta ELSE 0 IN
    <<MoveNode(node_id, drag_delta), RaiseNode(node_id)>>

movement(node_id, ev) ==
    LET drag_delta == IF on_node(ev, node_id) THEN ev.touch.drag_delta ELSE 0 IN
    IF drag_delta * drag_delta > 0
    THEN <<MoveNode(node_id, drag_delta), RaiseNode(node_id)>>
    ELSE <<>>

\* show(), node selection: only when no other response is active.
node_selection_whatever_responses(node_id, responses_so_far, ev) ==
    IF on_node(ev, node_id) /\ ev.touch.clicked
    THEN <<SelectNode(node_id), RaiseNode(node_id)>>
    ELSE <<>>

node_selection(node_id, responses_so_far, ev) ==
    IF responses_so_far = <<>> /\ on_node(ev, node_id) /\ ev.touch.clicked
    THEN <<SelectNode(node_id), RaiseNode(node_id)>>
    ELSE <<>>

\* NodeWidget::show for one node: the payload's widgets, input ports, output
\* ports, close button, movement, selection.
show_moves_before_delete(node_id, ongoing_drag, ev) ==
    LET before_selection ==
            user_ui(node_id, ev)
            \o draw_ports(node_id, drawn_inputs(node_id), ongoing_drag, TRUE, ev)
            \o draw_ports(node_id, nodes[node_id].outputs, ongoing_drag, FALSE, ev)
            \o movement(node_id, ev)
            \o close_button(node_id, ev)
    IN  before_selection \o node_selection(node_id, before_selection, ev)

show(node_id, ongoing_drag, ev) ==
    LET before_selection ==
            user_ui(node_id, ev)
            \o draw_ports(node_id, drawn_inputs(node_id), ongoing_drag, TRUE, ev)
            \o draw_ports(node_id, nodes[node_id].outputs, ongoing_drag, FALSE, ev)
            \o close_button(node_id, ev)
            \o movement(node_id, ev)
    IN  before_selection \o node_selection(node_id, before_selection, ev)

\* self.graph[self.node_id] aborts on a key that does not resolve, and so
\* does a port of the node that panics.
show_panics(node_id, ongoing_drag) ==
    \/ node_id \notin DOMAIN nodes
    \/ \E param \in Range(drawn_inputs(node_id)) :
         draw_port_panics(node_id, param, ongoing_drag)
    \/ \E param \in Range(nodes[node_id].outputs) :
         draw_port_panics(node_id, param, ongoing_drag)

\* One show() per node, in node_order.
RECURSIVE show_all(_, _, _)
show_all(order, ongoing_drag, ev) ==
    IF order = <<>> THEN <<>>
    ELSE show(Head(order), ongoing_drag, ev) \o show_all(Tail(order), ongoing_drag, ev)

\* -------------------------------------------------- response handling
\* RaiseNode: the node moves to the tail of node_order.
raise_to_front(order, n) ==
    IF n \in Range(order) THEN <<n>> \o SeqFilterOut(order, n) ELSE order

raise_appends(order, n) == order \o <<n>>

raise(order, n) ==
    IF n \in Range(order) THEN SeqFilterOut(order, n) \o <<n>> ELSE order

\* The editor's state while it handles a frame's responses; extra collects the
\* responses it adds to the frame's list.
EditorState ==
    [nodes |-> nodes, inputs |-> inputs, outputs |-> outputs,
     connections |-> connections,
     connection_in_progress |-> connection_in_progress,
     node_order |-> node_order, selected_nodes |-> selected_nodes,
     node_positions |-> node_positions, extra |-> <<>>]

\* DeleteNodeUi(n): the node leaves the graph with its slots and connections
\* and the session forgets it; DeleteNodeFull acknowledges the removal.
delete_node(st, n) ==
    IF n \notin DOMAIN st.nodes THEN st
    ELSE [st EXCEPT
            !.nodes = MapWithout(@, n),
            !.inputs = [s \in {x \in DOMAIN @ : @[x].node # n} |-> @[s]],
            !.outputs = [s \in {x \in DOMAIN @ : @[x].node # n} |-> @[s]],
            !.connections = remove_node_connections(@, n),
            !.node_order = SeqFilterOut(@, n),
            !.selected_nodes = SeqFilterOut(@, n),
            !.node_positions = MapWithout(@, n),
            !.extra = Append(@, DeleteNodeFull(n))]

\* The editor applies the frame's responses in order.
apply_response(st, r) ==
    IF r.tag = "ConnectEventStarted"
    THEN [st EXCEPT !.connection_in_progress = Some(r.node, r.slot)]
    ELSE IF r.tag = "ConnectEventEnded"
    THEN IF r.output \in DOMAIN st.inputs \cup DOMAIN st.outputs
            /\ r.input \in DOMAIN st.inputs \cup DOMAIN st.outputs
         THEN [st EXCEPT !.connections =
                 connect(@, r.output, r.input, connect_result(r.output, r.input))]
         ELSE st
    ELSE IF r.tag = "DisconnectEvent"
    THEN [st EXCEPT !.connections = disconnect(@, r.input)]
    ELSE IF r.tag = "SelectNode"
    THEN IF r.node \in DOMAIN st.nodes THEN [st EXCEPT !.selected_nodes = <<r.node>>] ELSE st
    ELSE IF r.tag = "RaiseNode"
    THEN [st EXCEPT !.node_order = raise(@, r.node)]
    ELSE IF r.tag = "MoveNode"
    THEN IF r.node \in DOMAIN st.node_positions
         THEN [st EXCEPT !.node_positions[r.node] = @ + r.drag_delta]
         ELSE st
    ELSE IF r.tag = "DeleteNodeUi"
    THEN delete_node(st, r.node)
    ELSE st

RECURSIVE apply_responses(_, _)
apply_responses(st, rs) ==
    IF rs = <<>> THEN st ELSE apply_responses(apply_response(st, Head(rs)), Tail(rs))

\* The nodes whose bounding rect intersects the rectangle from the anchor to
\* the pointer: the renderer's, with the pointer over the background; the
\* node under the pointer otherwise.
intersecting(ev) ==
    IF ev.touch.kind = "background" THEN ev.touch.box_hits
    ELSE IF ev.touch.kind = "node" THEN {ev.touch.node}
    ELSE {}

\* Box selection: while ongoing_box_selection is set, the selection is the
\* nodes whose bounding rect intersects the rectangle, in node_order.
box_selection_adds(selected, anchor, order, ev) ==
    IF anchor = None THEN selected
    ELSE selected \o SelectSeq(order, LAMBDA n : n \in intersecting(ev) /\ n \notin Range(selected))

box_selection(selected, anchor, order, ev) ==
    IF anchor = None THEN selected
    ELSE SelectSeq(order, LAMBDA n : n \in intersecting(ev))

\* ongoing_box_selection after the frame: a release clears it, a press on the
\* background sets the anchor when none is set.
box_anchor(anchor, ev) ==
    IF ev.released THEN None
    ELSE IF ev.touch.kind = "background" /\ ev.touch.pressed /\ anchor = None
    THEN <<ev.touch.pointer>>
    ELSE anchor

\* A pointer release resolves the drag that was open when the frame began.
release(cip, ongoing_drag, ev) ==
    IF ev.released /\ ongoing_drag # None THEN None ELSE cip

\* Ports drawn in this frame.
DrawnPorts ==
    {s \in DOMAIN inputs : should_draw(s) /\ inputs[s].node \in Range(node_order)}
    \cup {s \in DOMAIN outputs : outputs[s].node \in Range(node_order)}

\* One frame of the editor: every node of node_order is shown with the drag
\* that is open when the frame begins, then the responses are applied in
\* order, then the box selection and the pointer's release and press.
Frame(ev) ==
    /\ ~panicked
    /\ IF \E i \in DOMAIN node_order : show_panics(node_order[i], connection_in_progress)
       THEN /\ panicked' = TRUE
            /\ responses' = <<>>
            /\ last_result' = [op |-> "frame", result |-> "panic"]
            /\ UNCHANGED <<nodes, inputs, outputs, connections, node_order,
                           connection_in_progress, selection, node_positions>>
       ELSE \E shown \in {show_all(node_order, connection_in_progress, ev)} :
            \E st \in {apply_responses(EditorState, shown)} :
                /\ panicked' = FALSE
                /\ responses' = shown \o st.extra
                /\ nodes' = st.nodes
                /\ inputs' = st.inputs
                /\ outputs' = st.outputs
                /\ connections' = st.connections
                /\ connection_in_progress' =
                       release(st.connection_in_progress, connection_in_progress, ev)
                /\ node_order' = st.node_order
                /\ node_positions' = st.node_positions
                /\ selected_nodes' = box_selection(st.selected_nodes, ongoing_box_selection,
                                                  st.node_order, ev)
                /\ ongoing_box_selection' = box_anchor(ongoing_box_selection, ev)
                /\ last_result' = [op |-> "frame", ongoing_drag |-> connection_in_progress,
                                   box |-> ongoing_box_selection, ev |-> ev]
    /\ UNCHANGED <<next_node, next_slot>>

\* The frames the renderer can deliver. Only an idle editor looks at the drag
\* start (a dragging one senses hover alone) and only the release of an open
\* drag looks at the close ports: a frame left out here acts as one of these.
FrameInputs ==
    {FrameInput(d, {}, FALSE) : d \in DrawnPorts \cup {0}}
    \cup {FrameInput(0, c, TRUE) :
            c \in IF connection_in_progress = None THEN {{}} ELSE SUBSET DrawnPorts}

EditorFrame == \E ev \in FrameInputs : Frame(ev)

\* The editor session: a node gets its slots right after it is created, the
\* embedder edits the graph between frames.
Next ==
    \/ next_node < MaxNodes /\ CreateNode
    \/ /\ next_slot < MaxSlots
       /\ \E typ \in FirstTypes, kind \in {"ConstantOnly", "ConnectionOrConstant"} :
            AddInputSlot(next_node, typ, kind)
    \/ /\ next_slot < MaxSlots
       /\ \E typ \in FirstTypes : AddOutputSlot(next_node, typ)
    \/ \E n \in NodeKeys : RemoveNode(n)
    \/ \E o \in SlotKeys, i \in SlotKeys : Connect(o, i)
    \/ \E i \in SlotKeys : Disconnect(i)
    \/ EditorFrame

Spec == Init /\ [][Next]_vars

\* ================================================================ claims

\* ----------------------------------------------------- node interaction
\* Persistence: GraphEditor derives Serialize and Deserialize, so every field
\* of the struct is written and read back.
save(editor) ==
    [graph |-> editor.graph,
     node_order |-> editor.node_order,
     connection_in_progress |-> editor.connection_in_progress,
     selected_nodes |-> editor.selected_nodes,
     ongoing_box_selection |-> editor.ongoing_box_selection,
     node_positions |-> editor.node_positions]

load(saved) ==
    [graph |-> saved.graph,
     node_order |-> saved.node_order,
     connection_in_progress |-> saved.connection_in_progress,
     selected_nodes |-> saved.selected_nodes,
     ongoing_box_selection |-> saved.ongoing_box_selection,
     node_positions |-> saved.node_positions]

\* The GraphEditor value.
GraphEditor ==
    [graph |-> [nodes |-> nodes, inputs |-> inputs, outputs |-> outputs,
                connections |-> connections],
     node_order |-> node_order,
     connection_in_progress |-> connection_in_progress,
     selected_nodes |-> selected_nodes,
     ongoing_box_selection |-> ongoing_box_selection,
     node_positions |-> node_positions]

\* The embedder saves the editor and loads it back.
SaveLoad ==
    /\ ~panicked
    /\ \E loaded \in {load(save(GraphEditor))} :
        /\ nodes' = loaded.graph.nodes
        /\ inputs' = loaded.graph.inputs
        /\ outputs' = loaded.graph.outputs
        /\ connections' = loaded.graph.connections
        /\ node_order' = loaded.node_order
        /\ connection_in_progress' = loaded.connection_in_progress
        /\ selected_nodes' = loaded.selected_nodes
        /\ ongoing_box_selection' = loaded.ongoing_box_selection
        /\ node_positions' = loaded.node_positions
        /\ last_result' = [op |-> "load"]
    /\ responses' = <<>>
    /\ UNCHANGED <<next_node, next_slot, panicked>>

\* Nodes the editor shows.
LiveNodes == Range(node_order)

\* Points of the background a box selection can be anchored at.
Points == {1, 2}

RECURSIVE Sum(_, _)
Sum(f, S) == IF S = {} THEN 0 ELSE LET x == CHOOSE x \in S : TRUE IN f[x] + Sum(f, S \ {x})

\* Drag deltas a node's window can report in the next frame.
Deltas == IF Sum(node_positions, DOMAIN node_positions) < MaxDistance THEN {1} ELSE {}

\* A frame in which nothing is touched.
Quiet == FrameInput(0, {}, FALSE)

\* Frames in which the pointer is over the background: a press anchors a box
\* selection; with a selection open the pointer has moved off the anchor and
\* the button is held or released; without one a release resolves nothing.
BackgroundInputs ==
    IF ongoing_box_selection = None
    THEN {BackgroundInput(pressed, ~pressed, pointer, {}) :
            pressed \in BOOLEAN, pointer \in Points}
    ELSE {BackgroundInput(FALSE, released, pointer, box_hits) :
            released \in BOOLEAN, pointer \in Points \ {ongoing_box_selection[1]},
            box_hits \in SUBSET LiveNodes}

BackgroundFrame == \E ev \in BackgroundInputs : Frame(ev)

\* Frames in which a node's body is clicked or dragged.
BodyInputs ==
    {NodeInput(Quiet, n, {}, FALSE, FALSE, 0, TRUE) : n \in LiveNodes}
    \cup {NodeInput(Quiet, n, {}, FALSE, FALSE, d, FALSE) : n \in LiveNodes, d \in Deltas}

BodyFrame == \E ev \in BodyInputs : Frame(ev)

\* The node session: nodes are created, clicked and dragged, box selections
\* are made on the background, the editor is saved and loaded back.
NodesNext ==
    \/ next_node < NodesMaxNodes /\ CreateNode
    \/ BodyFrame
    \/ BackgroundFrame
    \/ SaveLoad

SpecNodes == Init /\ [][NodesNext]_vars

\* What can make a node respond in a frame: its payload's widgets, the press
\* of a drag on one of its ports, its close button with a payload that can or
\* cannot be deleted, a drag of its body.
Causes(n) ==
    {NodeInput(Quiet, n, LiveNodes, FALSE, FALSE, 0, FALSE),
     NodeInput(Quiet, n, {}, TRUE, TRUE, 0, FALSE),
     NodeInput(Quiet, n, {}, FALSE, TRUE, 0, FALSE)}
    \cup {NodeInput(FrameInput(p, {}, FALSE), n, {}, FALSE, FALSE, 0, FALSE) :
            p \in {s \in DrawnPorts : slot_node(s) = n}}
    \cup {NodeInput(Quiet, n, {}, FALSE, FALSE, d, FALSE) : d \in Deltas}

\* Frames in which the pointer touches a node: nothing but a click, one
\* cause, one cause with a click, or every cause with a click.
WidgetInputs ==
    UNION {{NodeInput(Quiet, n, {}, FALSE, FALSE, 0, TRUE)}
           \cup Causes(n)
           \cup {[ev EXCEPT !.touch.clicked = TRUE] : ev \in Causes(n)}
           \cup {NodeInput(FrameInput(p, {}, FALSE), n, LiveNodes, TRUE, TRUE, d, TRUE) :
                    p \in {s \in DrawnPorts : slot_node(s) = n}, d \in Deltas}
           : n \in LiveNodes}

WidgetFrame == \E ev \in WidgetInputs : Frame(ev)

\* The widget session: nodes are created and get Int32 slots, connection
\* drags are made on the ports, the pointer touches the nodes.
ShowNext ==
    \/ next_node < ShowMaxNodes /\ CreateNode
    \/ next_slot < ShowMaxSlots /\ AddInputSlot(next_node, "Int32", "ConnectionOrConstant")
    \/ next_slot < ShowMaxSlots /\ AddOutputSlot(next_node, "Int32")
    \/ EditorFrame
    \/ WidgetFrame

SpecShow == Init /\ [][ShowNext]_vars

\* Drags of a node's body that keep it within MoveMaxDistance of where it was
\* created: one step to either side.
MoveDeltas(n) ==
    {d \in {-1, 1} : /\ node_positions[n] + d <= MoveMaxDistance
                     /\ node_positions[n] + d >= -MoveMaxDistance}

\* Frames in which a node's body is touched: clicked without a drag, dragged,
\* or dragged with the click reported in the same frame.
MoveInputs ==
    UNION {{NodeInput(Quiet, n, {}, FALSE, FALSE, 0, TRUE)}
           \cup {NodeInput(Quiet, n, {}, FALSE, FALSE, d, clicked) :
                    d \in MoveDeltas(n), clicked \in BOOLEAN}
           : n \in LiveNodes}

MoveFrame == \E ev \in MoveInputs : Frame(ev)

\* The move session: nodes are created, clicked and dragged about.
MoveNext ==
    \/ next_node < MoveMaxNodes /\ CreateNode
    \/ MoveFrame

SpecMove == Init /\ [][MoveNext]_vars

\* Frames of a connection drag: a port is pressed, or nothing happens; with a
\* drag open the pointer is within the radius of any set of ports, with the
\* button held or released; without one a release resolves nothing.
DragInputs ==
    {FrameInput(d, {}, FALSE) : d \in DrawnPorts \cup {0}}
    \cup IF connection_in_progress = None
         THEN {FrameInput(0, {}, TRUE)}
         ELSE {FrameInput(0, c, released) : c \in SUBSET DrawnPorts, released \in BOOLEAN}

DragFrame == \E ev \in DragInputs : Frame(ev)

\* The drag session: nodes are created and get Int32 slots, connections are
\* dragged between the ports.
DragNext ==
    \/ next_node < DragMaxNodes /\ CreateNode
    \/ next_slot < DragMaxSlots /\ AddInputSlot(next_node, "Int32", "ConnectionOrConstant")
    \/ next_slot < DragMaxSlots /\ AddOutputSlot(next_node, "Int32")
    \/ DragFrame

SpecDrag == Init /\ [][DragNext]_vars

\* Frames in which a node is clicked, or the close button of a deletable node
\* is clicked.
SessionInputs ==
    {NodeInput(Quiet, n, {}, FALSE, FALSE, 0, TRUE) : n \in LiveNodes}
    \cup {NodeInput(Quiet, n, {}, TRUE, TRUE, 0, FALSE) : n \in LiveNodes}

SessionFrame == \E ev \in SessionInputs : Frame(ev)

\* The session: nodes are created, removed by the embedder or through their
\* close button, clicked (selected and raised) and box-selected.
SessionNext ==
    \/ next_node < SessionMaxNodes /\ CreateNode
    \/ \E n \in NodeKeys : RemoveNode(n)
    \/ SessionFrame
    \/ BackgroundFrame

SpecSession == Init /\ [][SessionNext]_vars

\* C1: after any sequence of add_node, add_input_slot, add_output_slot,
\* connect, disconnect and remove_node, the connection table never holds two
\* entries for the same input slot.
C1_OneConnectionPerInput ==
    \A e1 \in connections, e2 \in connections : e1[1] = e2[1] => e1 = e2

\* C1 witness: a connect succeeded on an input that already had a connection
\* to another output.
C1_Witness ==
    /\ last_result.op = "connect"
    /\ last_result.result = "Ok"
    /\ last_result.previous # <<>>
    /\ \E e \in connections : last_result.previous # <<e[2]>>

\* C2: after remove_node(n) no slot formerly owned by n resolves, and no
\* connection has such a slot as its input key or as its output value.
C2_RemoveNodeLeavesNothing ==
    [][last_result'.op = "remove_node" =>
        \A n \in NodeKeys :
            RemoveNode(n) =>
                \A s \in slots_of(n) :
                    /\ s \notin DOMAIN inputs'
                    /\ s \notin DOMAIN outputs'
                    /\ \A e \in connections' : e[1] # s /\ e[2] # s]_vars

\* C2 witness: a remove_node cascaded over a fan-out entry, whose input
\* belongs to a node that is still there.
C2_Witness ==
    /\ last_result.op = "remove_node"
    /\ \E e \in last_result.cascade : e[1] \in DOMAIN inputs /\ ~resolves(e[2])

\* ------------------------------------------------- editor claims: helpers
\* How often response r occurs in the response list rs.
Occurrences(rs, r) == Cardinality({k \in DOMAIN rs : rs[k] = r})

\* The ConnectEventEnded responses of a response list.
Ended(rs) == {rs[k] : k \in {j \in DOMAIN rs : rs[j].tag = "ConnectEventEnded"}}

Started(rs) == {rs[k] : k \in {j \in DOMAIN rs : rs[j].tag = "ConnectEventStarted"}}

Disconnected(rs) == {rs[k] : k \in {j \in DOMAIN rs : rs[j].tag = "DisconnectEvent"}}

\* The last step was a frame that did not abort; last_result.ev is its input
\* and last_result.ongoing_drag the drag that was open when it began.
WasFrame == last_result.op = "frame" /\ ~panicked

\* The last step was a frame in which a release resolved an open drag.
WasRelease == WasFrame /\ last_result.ev.released /\ last_result.ongoing_drag # None

\* The last step was connect(o, i) for some pair of keys.
WasConnect == last_result.op = "connect"

\* This step is a frame that does not abort; last_result'.ev is its input.
FrameStep == last_result'.op = "frame" /\ ~panicked'

\* This step is connect(o, i).
ConnectStep(o, i) == Connect(o, i)

\* A compatible target of a drag from origin: a slot of another node with the
\* origin's type.
Compatible(p, origin) ==
    /\ slot_node(p) # origin[1]
    /\ any_param_type(p) = any_param_type(origin[2])

\* C3: with a drag open from output O of node A, a release within the capture
\* radius of input I of another node B with type(I) = type(O) emits exactly
\* one ConnectEventEnded{input: I, output: O}; afterwards connection_of(I) is
\* Some(O) and connection_in_progress is None.
C3_DragOutputToInputConnects ==
    [][FrameStep =>
        \A O \in DOMAIN outputs, I \in DOMAIN inputs :
            (/\ connection_in_progress = Some(outputs[O].node, O)
             /\ last_result'.ev.released
             /\ I \in last_result'.ev.close
             /\ inputs[I].node # outputs[O].node
             /\ inputs[I].typ = outputs[O].typ)
            => /\ Occurrences(responses', ConnectEventEnded(O, I)) = 1
               /\ SecondaryGet(connections', I) = <<O>>
               /\ connection_in_progress' = None]_vars

\* C3 witness: a release resolved a drag from an output over a compatible
\* input, which is now connected to it.
C3_Witness ==
    /\ WasRelease
    /\ connection_in_progress = None
    /\ \E O \in DOMAIN outputs, I \in DOMAIN inputs :
        /\ last_result.ongoing_drag = Some(outputs[O].node, O)
        /\ I \in last_result.ev.close
        /\ responses = <<ConnectEventEnded(O, I)>>
        /\ connection(I) = <<O>>

\* C4: no connection ever joins two slots of one node: connect on two slots
\* of the same node fails whatever their types, and a release over a slot of
\* the origin node emits no ConnectEventEnded for it, types equal and within
\* the radius or not.
C4_NoSelfLoop ==
    /\ [](\A e \in connections : slot_node(e[1]) # slot_node(e[2]))
    /\ [][(last_result'.op = "connect" /\ last_result'.result = "Ok") =>
            \A o \in SlotKeys, i \in SlotKeys :
                (resolves(o) /\ resolves(i) /\ slot_node(o) = slot_node(i))
                => ~ConnectStep(o, i)]_vars
    /\ [][(last_result'.op = "connect" /\ last_result'.result # "Ok")
            => connections' = connections]_vars
    /\ [][(FrameStep /\ connection_in_progress # None)
            => /\ \A r \in Ended(responses') : slot_node(r.input) # slot_node(r.output)
               /\ \A p \in last_result'.ev.close :
                    slot_node(p) = connection_in_progress[1]
                    => \A r \in Ended(responses') : r.input # p]_vars

\* C4 witness: a release resolved a drag from an output within the radius of
\* an input of the same node that has the output's type, and nothing was
\* emitted.
C4_Witness ==
    /\ WasRelease
    /\ resolves(last_result.ongoing_drag[2])
    /\ last_result.ongoing_drag[2] \in DOMAIN outputs
    /\ \E p \in last_result.ev.close :
        /\ p \in DOMAIN inputs
        /\ slot_node(p) = last_result.ongoing_drag[1]
        /\ any_param_type(p) = any_param_type(last_result.ongoing_drag[2])
    /\ responses = <<>>

\* C5: when the declared types of the two slots differ, connect leaves the
\* connection table as it was, and a release over a slot whose type differs
\* from the origin slot's emits no ConnectEventEnded for it.
C5_TypeMismatchDeclined ==
    /\ [][(last_result'.op = "connect" /\ last_result'.result # "TypeMismatch") =>
            \A o \in SlotKeys, i \in SlotKeys :
                (resolves(o) /\ resolves(i) /\ any_param_type(o) # any_param_type(i))
                => ~ConnectStep(o, i)]_vars
    /\ [][(last_result'.op = "connect" /\ last_result'.result = "TypeMismatch")
            => connections' = connections]_vars
    /\ [][(FrameStep /\ connection_in_progress # None)
            => \A p \in last_result'.ev.close :
                 any_param_type(p) # any_param_type(connection_in_progress[2])
                 => \A r \in Ended(responses') : r.input # p /\ r.output # p]_vars

\* C5 witness: a release resolved a drag from an output within the radius of
\* an input of another node whose type differs from the output's; nothing was
\* emitted and the two slots are not connected.
C5_Witness ==
    /\ WasRelease
    /\ resolves(last_result.ongoing_drag[2])
    /\ last_result.ongoing_drag[2] \in DOMAIN outputs
    /\ \E p \in last_result.ev.close :
        /\ p \in DOMAIN inputs
        /\ slot_node(p) # last_result.ongoing_drag[1]
        /\ any_param_type(p) # any_param_type(last_result.ongoing_drag[2])
        /\ <<p, last_result.ongoing_drag[2]>> \notin connections
        /\ <<last_result.ongoing_drag[2], p>> \notin connections
    /\ responses = <<>>

\* C6: a drag from output O released where no close slot is a compatible
\* target emits no response, leaves nodes, slots and connections unchanged
\* and sets connection_in_progress back to None.
C6_ReleaseWithoutTarget ==
    [][(/\ FrameStep
        /\ connection_in_progress # None
        /\ connection_in_progress[2] \in DOMAIN outputs
        /\ last_result'.ev.released
        /\ \A p \in last_result'.ev.close : ~Compatible(p, connection_in_progress))
       => /\ responses' = <<>>
          /\ UNCHANGED <<nodes, inputs, outputs, connections>>
          /\ connection_in_progress' = None]_vars

\* C6 witness: a release resolved a drag from an output with a slot of
\* another node in the radius, and no close slot compatible.
C6_Witness ==
    /\ WasRelease
    /\ last_result.ongoing_drag[2] \in DOMAIN outputs
    /\ \E p \in last_result.ev.close : slot_node(p) # last_result.ongoing_drag[1]
    /\ \A p \in last_result.ev.close : ~Compatible(p, last_result.ongoing_drag)
    /\ responses = <<>>
    /\ connection_in_progress = None

\* C7: in Idle, a drag start on an input I connected to output O emits exactly
\* one DisconnectEvent{input: I, output: O} and no ConnectEventStarted;
\* afterwards connection_of(I) is None and connection_in_progress still None.
C7_DragFromConnectedInputDisconnects ==
    [][FrameStep =>
        \A I \in DOMAIN inputs :
            (/\ connection_in_progress = None
             /\ last_result'.ev.drag_started = I
             /\ connection(I) # <<>>)
            => /\ Occurrences(responses', DisconnectEvent(connection(I)[1], I)) = 1
               /\ Disconnected(responses') = {DisconnectEvent(connection(I)[1], I)}
               /\ Started(responses') = {}
               /\ SecondaryGet(connections', I) = <<>>
               /\ connection_in_progress' = None]_vars

\* C7 witness: an idle frame emitted one DisconnectEvent for the input the
\* drag started on, which now has no connection; the editor is still idle.
C7_Witness ==
    /\ WasFrame
    /\ last_result.ongoing_drag = None
    /\ connection_in_progress = None
    /\ \E I \in DOMAIN inputs, O \in DOMAIN outputs :
        /\ last_result.ev.drag_started = I
        /\ responses = <<DisconnectEvent(O, I)>>
        /\ connection(I) = <<>>

\* C8: in Idle, a drag start on an unconnected output slot s of node n emits
\* exactly one ConnectEventStarted(n, s) and leaves
\* connection_in_progress = Some((n, s)).
C8_DragFromOutputStarts ==
    [][FrameStep =>
        \A s \in DOMAIN outputs :
            (/\ connection_in_progress = None
             /\ last_result'.ev.drag_started = s
             /\ \A e \in connections : e[2] # s)
            => /\ Occurrences(responses', ConnectEventStarted(outputs[s].node, s)) = 1
               /\ Started(responses') = {ConnectEventStarted(outputs[s].node, s)}
               /\ connection_in_progress' = Some(outputs[s].node, s)]_vars

\* C8 witness: an idle frame emitted ConnectEventStarted for the unconnected
\* output the drag started on, which is now the origin of the open drag.
C8_Witness ==
    /\ WasFrame
    /\ last_result.ongoing_drag = None
    /\ \E s \in DOMAIN outputs :
        /\ last_result.ev.drag_started = s
        /\ \A e \in connections : e[2] # s
        /\ responses = <<ConnectEventStarted(outputs[s].node, s)>>
        /\ connection_in_progress = Some(outputs[s].node, s)

\* C9: whichever end the drag started from, a ConnectEventEnded that pairs an
\* input slot with an output slot names the input slot in its input field
\* and the output slot in its output field.
C9_EndedRolesIntrinsic ==
    \A r \in Ended(responses) : ~(r.input \in DOMAIN outputs /\ r.output \in DOMAIN inputs)

\* C10: a connection is never created between two inputs or two outputs:
\* connect with keys that are not one input and one output fails with
\* DirectionError, and a release of a drag over a slot of the origin's role
\* emits no ConnectEventEnded and leaves the connection table unchanged.
C10_NoSameRoleConnection ==
    /\ [](\A e \in connections : e[1] \in DOMAIN inputs /\ e[2] \in DOMAIN outputs)
    /\ [][last_result'.op = "connect" =>
            \A o \in SlotKeys, i \in SlotKeys :
                (/\ resolves(o) /\ resolves(i)
                 /\ any_param_type(o) = any_param_type(i)
                 /\ slot_node(o) # slot_node(i)
                 /\ ~(o \in DOMAIN outputs /\ i \in DOMAIN inputs)
                 /\ ConnectStep(o, i))
                => last_result'.result = "DirectionError" /\ connections' = connections]_vars
    /\ [][FrameStep
            => \A r \in Ended(responses') :
                 /\ ~(r.input \in DOMAIN inputs /\ r.output \in DOMAIN inputs)
                 /\ ~(r.input \in DOMAIN outputs /\ r.output \in DOMAIN outputs)]_vars

\* C11: while a drag is open, a drag start on any port is ignored:
\* connection_in_progress keeps its value, the connection table is unchanged
\* and the frame emits neither ConnectEventStarted nor DisconnectEvent.
C11_DragStartWhileDraggingIgnored ==
    [][(/\ FrameStep
        /\ last_result'.ongoing_drag # None
        /\ last_result'.ev.drag_started # 0)
       => /\ connection_in_progress' = connection_in_progress
          /\ connections' = connections
          /\ Started(responses') = {}
          /\ Disconnected(responses') = {}]_vars

\* C11 witness: with a drag open, the press of a drag landed on a connected
\* input (which would detach it in an idle editor) and nothing happened.
C11_Witness ==
    /\ WasFrame
    /\ last_result.ongoing_drag # None
    /\ last_result.ev.drag_started \in DOMAIN inputs
    /\ connection(last_result.ev.drag_started) # <<>>
    /\ connection_in_progress = last_result.ongoing_drag
    /\ responses = <<>>

\* C12: a successful connect(O2, I) on an input I that is connected to O1
\* replaces the entry: afterwards connection_of(I) is Some(O2), no entry
\* I -> O1 remains, and every other input keeps its connection.
C12_ConnectReplaces ==
    [][(last_result'.op = "connect" /\ last_result'.result = "Ok") =>
        \A O2 \in SlotKeys, I \in SlotKeys :
            ConnectStep(O2, I) =>
                /\ SecondaryGet(connections', I) = <<O2>>
                /\ \A e \in connections' : e[1] = I => e[2] = O2
                /\ \A J \in SlotKeys \ {I} :
                     SecondaryGet(connections', J) = SecondaryGet(connections, J)]_vars

\* C12 witness: connect succeeded on an input that was connected to another
\* output; the table holds the new entry and not the old one.
C12_Witness ==
    /\ WasConnect
    /\ last_result.result = "Ok"
    /\ \E O1 \in DOMAIN outputs, O2 \in DOMAIN outputs, I \in DOMAIN inputs :
        /\ O1 # O2
        /\ last_result.previous = <<O1>>
        /\ <<I, O2>> \in connections
        /\ <<I, O1>> \notin connections

\* C17: add_node returns a NodeId that no earlier add_node returned, removed
\* nodes included; the new node has empty slot lists and stores the returned
\* key as its id; the nodes, slots and connections that existed are unchanged.
C17_AddNodeFreshId ==
    [][last_result'.op = "add_node" =>
        LET key == last_result'.result IN
            /\ key \notin NodeKeys
            /\ key \in DOMAIN nodes'
            /\ nodes'[key].id = key
            /\ nodes'[key].inputs = <<>>
            /\ nodes'[key].outputs = <<>>
            /\ \A n \in DOMAIN nodes : n \in DOMAIN nodes' /\ nodes'[n] = nodes[n]
            /\ DOMAIN nodes' = DOMAIN nodes \cup {key}
            /\ inputs' = inputs
            /\ outputs' = outputs
            /\ connections' = connections]_vars

\* C17 witness: add_node returned a key after an earlier node was removed.
C17_Witness ==
    /\ last_result.op = "add_node"
    /\ last_result.result \in DOMAIN nodes
    /\ \E n \in NodeKeys : n \notin DOMAIN nodes

\* C18: no frame aborts: every input event on slots and nodes of the graph
\* is handled, also while a connection drag is open.
C18_NoPanic == ~panicked

\* ------------------------------------------------- node claims: helpers
\* Position of x in a sequence that holds it.
Index(seq, x) == CHOOSE i \in DOMAIN seq : seq[i] = x

\* The nodes a response list raises.
Raised(rs) == {rs[k].node : k \in {j \in DOMAIN rs : rs[j].tag = "RaiseNode"}}

\* The tags of a response list.
Tags(rs) == {rs[k].tag : k \in DOMAIN rs}

\* C13: RaiseNode(n) makes n the last element of node_order and keeps the
\* relative order of all other nodes; when n is already last, node_order is
\* unchanged.
C13_RaiseNodeMovesToEnd ==
    [][FrameStep =>
        \A n \in LiveNodes :
            (Raised(responses') = {n} /\ "DeleteNodeUi" \notin Tags(responses'))
            => /\ Len(node_order') = Len(node_order)
               /\ node_order'[Len(node_order')] = n
               /\ \A a \in LiveNodes \ {n}, b \in LiveNodes \ {n} :
                    Index(node_order, a) < Index(node_order, b)
                    <=> Index(node_order', a) < Index(node_order', b)
               /\ node_order[Len(node_order)] = n => node_order' = node_order]_vars

\* C13 witness: of three nodes, the frame raised one that was created before
\* the other two, and it is last now with the other two in their order.
C13_Witness ==
    /\ WasFrame
    /\ Len(node_order) = 3
    /\ Raised(responses) = {node_order[3]}
    /\ node_order[3] < node_order[1]
    /\ node_order[1] < node_order[2]

\* C15: a press on the background anchors a box selection; until the release
\* ongoing_box_selection keeps that anchor; the release leaves it None and
\* leaves selected exactly the nodes whose bounding rect intersects the final
\* rectangle.
C15_BoxSelection ==
    /\ [][(FrameStep /\ ongoing_box_selection = None
            /\ last_result'.ev.touch.kind = "background"
            /\ last_result'.ev.touch.pressed /\ ~last_result'.ev.released)
          => ongoing_box_selection' = <<last_result'.ev.touch.pointer>>]_vars
    /\ [][(FrameStep /\ ongoing_box_selection # None /\ ~last_result'.ev.released)
          => ongoing_box_selection' = ongoing_box_selection]_vars
    /\ [][(FrameStep /\ ongoing_box_selection # None /\ last_result'.ev.released)
          => /\ ongoing_box_selection' = None
             /\ \A n \in DOMAIN nodes' :
                    n \in Range(selected_nodes') <=> n \in intersecting(last_result'.ev)]_vars

\* C15 witness: with three nodes, a box selection was released over a
\* rectangle that intersects two of them; the two are selected, the third is
\* not.
C15_Witness ==
    /\ WasFrame
    /\ last_result.box # None
    /\ last_result.ev.released
    /\ ongoing_box_selection = None
    /\ Cardinality(DOMAIN nodes) = 3
    /\ Cardinality(intersecting(last_result.ev)) = 2
    /\ Range(selected_nodes) = intersecting(last_result.ev)

\* C19: saving the editor and loading it back gives the same graph,
\* node_positions and node_order, with connection_in_progress = None and
\* ongoing_box_selection = None whatever they were when it was saved.
C19_SaveLoadResetsGestures ==
    [][last_result'.op = "load" =>
        /\ nodes' = nodes
        /\ inputs' = inputs
        /\ outputs' = outputs
        /\ connections' = connections
        /\ node_positions' = node_positions
        /\ node_order' = node_order
        /\ connection_in_progress' = None
        /\ ongoing_box_selection' = None]_vars

\* ----------------------------------------------- widget claims: helpers
\* The port a connection response was produced on: the end of the pair that
\* is not the origin of the drag.
ResponsePort(r, ongoing_drag) ==
    IF r.tag = "ConnectEventStarted" THEN r.slot
    ELSE IF r.tag = "DisconnectEvent" THEN r.input
    ELSE IF ongoing_drag # None /\ r.input = ongoing_drag[2] THEN r.output
    ELSE r.input

\* The node whose show() produced response r in a frame drawn with
\* ongoing_drag.
ResponseNode(r, ongoing_drag) ==
    IF r.tag \in {"ConnectEventStarted", "ConnectEventEnded", "DisconnectEvent"}
    THEN slot_node(ResponsePort(r, ongoing_drag))
    ELSE IF r.tag = "DeleteNodeFull" THEN r.node_id
    ELSE r.node

\* The responses of a frame that the nodes' show() returned.
Shown(rs) == SelectSeq(rs, LAMBDA r : r.tag # "DeleteNodeFull")

\* The responses show() returned for node N.
ShownBy(rs, N, ongoing_drag) ==
    SelectSeq(Shown(rs), LAMBDA r : ResponseNode(r, ongoing_drag) = N)

Place(rs, k, ongoing_drag) ==
    LET r == rs[k] IN
    IF r.tag \in {"ConnectEventStarted", "ConnectEventEnded", "DisconnectEvent"}
    THEN LET port == ResponsePort(r, ongoing_drag)
             declared == nodes[slot_node(port)].inputs \o nodes[slot_node(port)].outputs
         IN  Index(declared, port)
    ELSE IF r.tag = "DeleteNodeUi" THEN 100
    ELSE IF r.tag = "MoveNode" THEN 101
    ELSE IF r.tag = "SelectNode" THEN 103
    ELSE IF r.tag = "RaiseNode" /\ k > 1 /\ rs[k - 1].tag = "MoveNode" THEN 102
    ELSE IF r.tag = "RaiseNode" /\ k > 1 /\ rs[k - 1].tag = "SelectNode" THEN 104
    ELSE 0

C21_MoveNodeEveryDraggedFrame ==
    [][FrameStep =>
        \A n \in LiveNodes :
            LET d == IF on_node(last_result'.ev, n)
                     THEN last_result'.ev.touch.drag_delta ELSE 0
                rs == ShownBy(responses', n, last_result'.ongoing_drag)
                moves == {k \in DOMAIN rs : rs[k].tag = "MoveNode"}
                raises == {k \in DOMAIN rs : rs[k].tag = "RaiseNode"}
            IN  /\ d # 0 =>
                    /\ Cardinality(moves) = 1
                    /\ Cardinality(raises) = 1
                    /\ \A k \in moves :
                        /\ rs[k] = MoveNode(n, d)
                        /\ k < Len(rs)
                        /\ rs[k + 1] = RaiseNode(n)
                /\ d = 0 => moves = {}
                /\ n \in DOMAIN nodes' => node_positions'[n] = node_positions[n] + d]_vars

\* C21 witness: a node was dragged by one step in the last frame, which
\* returned MoveNode and RaiseNode for it, and it is now two steps away from
\* where it was created: the deltas of two frames have added up.
C21_Witness ==
    /\ WasFrame
    /\ last_result.ev.touch.kind = "node"
    /\ LET n == last_result.ev.touch.node
           d == last_result.ev.touch.drag_delta
       IN  /\ d # 0
           /\ responses = <<MoveNode(n, d), RaiseNode(n)>>
           /\ node_positions[n] = 2 * d

\* C22: while a drag is open, a frame without a pointer release leaves
\* connection_in_progress at the same origin and the connection table as it
\* was; connection_in_progress becomes None only in a frame with a release,
\* and every release while a drag is open makes it None.
C22_DragStaysOpenUntilRelease ==
    /\ [][(FrameStep /\ connection_in_progress # None /\ ~last_result'.ev.released)
            => /\ connection_in_progress' = connection_in_progress
               /\ connections' = connections]_vars
    /\ [][(connection_in_progress # None /\ connection_in_progress' = None)
            => (FrameStep /\ last_result'.ev.released)]_vars
    /\ [][(FrameStep /\ connection_in_progress # None /\ last_result'.ev.released)
            => connection_in_progress' = None]_vars

\* C22 witness: with a drag open and the button held, the pointer was within
\* the radius of a port of another node that has the origin's type; the drag
\* is still open from the same origin and that port is not connected.
C22_Witness ==
    /\ WasFrame
    /\ last_result.ongoing_drag # None
    /\ ~last_result.ev.released
    /\ connection_in_progress = last_result.ongoing_drag
    /\ responses = <<>>
    /\ \E p \in last_result.ev.close :
        /\ p \in DOMAIN inputs
        /\ Compatible(p, last_result.ongoing_drag)
        /\ connection(p) = <<>>

\* C23: one pointer release while a drag is open resolves to at most one
\* connection: the frame emits at most one ConnectEventEnded, also when two
\* or more compatible slots are within the capture radius.
C23_AtMostOneEndedPerRelease ==
    [][FrameStep => Cardinality({k \in DOMAIN responses' :
                        responses'[k].tag = "ConnectEventEnded"}) <= 1]_vars

\* C24: whenever connection_in_progress is Some((n, s)), node n is in the
\* graph and s is a slot owned by n, also after n was removed while the drag
\* was open.
C24_DragOriginExists ==
    connection_in_progress # None
    => /\ connection_in_progress[1] \in DOMAIN nodes
       /\ connection_in_progress[2] \in slots_of(connection_in_progress[1])

====
